---- MODULE Spec2Model ----
(***************************************************************************)
(* A model of lm_eval/models/custom_lm.py: the TorchLLM adapter.           *)
(*                                                                         *)
(* The state is the adapter object's mutable fields (ll_cache, kv_cache),  *)
(* the position of the one synchronous call in progress, and a record of   *)
(* what the last call was given and what it gave back.  Python values of   *)
(* different types that can meet in one place (an int where a list is      *)
(* expected) are tagged records, so that the TypeError the interpreter     *)
(* raises is an outcome of the model.                                      *)
(*                                                                         *)
(* The network behind self.model and the sampler inference.utils.sample    *)
(* belong to torch_llms: the network is a fixed causal scoring function    *)
(* chosen by `weights`, the sampler is a free choice among the tokens.     *)
(* Log-probabilities are integers (a fixed-point reading of the floats).   *)
(*                                                                         *)
(* Execution is single-threaded and the two halves of the adapter share no *)
(* mutable state: the log-likelihood methods read and write ll_cache only  *)
(* (their forward pass of line 175 takes no kv_cache), generate reads and  *)
(* writes kv_cache only.  So the module states three specifications over   *)
(* the one state:                                                          *)
(*   Spec     calls of generate and generate_until, step by step;          *)
(*   SpecLL   calls of _loglikelihood_tokens_unbatched on any request and  *)
(*            of loglikelihood_rolling;                                    *)
(*   SpecTok  calls of _loglikelihood_tokens_unbatched whose context       *)
(*            tokens are tok_encode of the context string.                 *)
(***************************************************************************)
EXTENDS Integers, Sequences, FiniteSets, TLC

\* ------------------------------------------------------------- bounds
VocabSize == 3      \* token ids 0 .. VocabSize-1
MaxSeed   == 1      \* weights range over 0 .. MaxSeed
MaxCtx    == 2      \* longest context token list of a log-likelihood request
MaxGen    == 2      \* longest continuation token list
MaxReqs   == 2      \* most requests in one call
MaxLength == 3      \* largest max_length / max_gen_toks of a request

\* ---------------------------------------------------------- tokenizer
EOS == 0            \* self.tokenizer.eos_token_id
BOS == 1            \* self.tokenizer.bos_token_id
BosString == "<s>"  \* self.tokenizer.bos_token

Vocab == 0 .. (VocabSize - 1)
SpecialTokens == {EOS, BOS}

\* eot_token_id property
eot_token_id == EOS

\* ------------------------------------------------------ Python values
PyInt(n)  == [t |-> "int",  n |-> n]
PyList(l) == [t |-> "list", l |-> l]
PyStr(s)  == [t |-> "str",  s |-> s]

\* ------------------------------------------------------ small helpers
RECURSIVE SumSeq(_)
SumSeq(s) == IF s = <<>> THEN 0 ELSE Head(s) + SumSeq(Tail(s))

Prefix(s, k) == SubSeq(s, 1, k)

\* Python's s[-k:] for k >= 1: the last k elements, or all of s when shorter
LastK(s, k) == IF Len(s) <= k THEN s ELSE SubSeq(s, Len(s) - k + 1, Len(s))

SeqsUpTo(S, lo, hi) == UNION {[1 .. k -> S] : k \in lo .. hi}

\* f with its values computed once and kept (TLC otherwise evaluates the body
\* of [x \in S |-> e] at every application)
Tabulate(f) == f @@ f

\* ---------------------------------------------------------- the network
\* A causal language model: the scores at a position depend on the tokens up
\* to and including that position, and on the weights.
RECURSIVE Hidden(_, _)
Hidden(w, toks) ==
    IF toks = <<>> THEN w + 1
    ELSE (3 * Hidden(w, Prefix(toks, Len(toks) - 1)) + toks[Len(toks)] + 1) % 7

\* log_softmax(self.model.forward(x))[0, p, v] for the position whose prefix
\* is toks: a log-probability, so never positive
Score(w, toks, v) == 0 - (((Hidden(w, toks) + 1) * (v + 2) + v * v) % 5)

\* The network evaluated once on every input the bounds allow
Seeds == 0 .. MaxSeed
Network ==
    Tabulate([w \in Seeds |->
        Tabulate([toks \in SeqsUpTo(Vocab, 0, MaxCtx + MaxGen) |->
            Tabulate([v \in Vocab |-> Score(w, toks, v)])])])
LogProb(w, toks, v) == Network[w][toks][v]

\* x.argmax() / x.max(dim=-1)[1] of a vector over the vocabulary (the first
\* index among equal maxima)
Argmax(vec) ==
    CHOOSE v \in DOMAIN vec :
        /\ \A u \in DOMAIN vec : vec[u] <= vec[v]
        /\ \A u \in DOMAIN vec : vec[u] = vec[v] => v <= u

\* ------------------------------------------------------------- state
VARIABLES
    weights,     \* the loaded model (fixed after __init__)
    eot_ids,     \* self.eot_ids
    tok_of,      \* tok_encode: the token list of each context string
    ll_cache,    \* self.ll_cache: context string -> vector over the vocabulary
    kv_cache,    \* self.kv_cache: the tokens whose keys/values are cached
    call,        \* the call made on the adapter and its arguments
    ret,         \* what that call returned or raised
    pc,          \* where generate is: "idle", "loop" (line 244),
                 \* "decode" (line 257), "post" (line 265), "returned"
    idx,         \* generate: the position of the zip of line 244
    new_tokens,  \* generate: new_tokens
    loop_i,      \* generate: the local i, unbound until the loop of line 257 runs
    responses,   \* generate: responses
    decoded,     \* for each response, the decoded text before the stop cut
    done,        \* what lines 265-275 did for the request just finished
    fwd          \* the last forward pass of generate: the cache contents it
                 \* ran on, and what this request had fed the model before it

genvars == <<pc, idx, new_tokens, loop_i, responses, decoded, done, fwd>>
vars == <<weights, eot_ids, tok_of, ll_cache, kv_cache, call, ret, genvars>>

CtxStrings == {BosString, "q"}
CtxTokens == SeqsUpTo(Vocab, 1, MaxCtx)
GenTokens == SeqsUpTo(Vocab, 1, MaxGen)

NoCall == [op |-> "none"]
NoRet == [status |-> "none"]
NoDone == [status |-> "none"]
NoFwd == [seen |-> <<>>, fed |-> <<>>]
Unbound == [bound |-> FALSE, v |-> 0]

\* ------------------------------------- _loglikelihood_tokens_unbatched
\* line 157: the memoization test
CacheHitNever(cache, cs, gen) == FALSE
CacheHit(cache, cs, gen) == cs \in DOMAIN cache /\ Len(gen) = 1

\* line 162, then [:, 1:] of line 169 (padding a batch of one changes nothing)
FullMasks(c, g) ==
    [k \in 1 .. (Len(c) + Len(g)) |-> IF k <= Len(c) THEN 0 ELSE 1]
MasksNotShifted(c, g) == FullMasks(c, g)
Masks(c, g) == Tail(FullMasks(c, g))

\* line 165
Sequences(c, g) == c \o g
\* line 171: labels = sequences[:, 1:]
Labels(seq) == Tail(seq)
\* line 172: sequences = sequences[:, :-1]
Inputs(seq) == Prefix(seq, Len(seq) - 1)

\* lines 175-176: one vector of log-probabilities per input position
Logits(w, inputs) ==
    [p \in 1 .. Len(inputs) |-> [v \in Vocab |-> LogProb(w, Prefix(inputs, p), v)]]

\* line 179: gather
ExpandedLogProbs(logits, labels) ==
    [p \in 1 .. Len(labels) |-> logits[p][labels[p]]]

\* line 180
TrajLogProbs(expanded, masks) ==
    SumSeq([p \in 1 .. Len(expanded) |-> expanded[p] * masks[p]])

\* line 184: the vector stored under the context string
CacheEntry(traj, expanded, logits) ==
    Tabulate([v \in Vocab |-> traj - expanded[Len(expanded)] + logits[Len(logits)][v]])

\* lines 189-190: ((argmax == labels) * masks).all(dim=1)
GreedyDecoding(logits, labels, masks) ==
    \A p \in 1 .. Len(labels) :
        (IF Argmax(logits[p]) = labels[p] THEN 1 ELSE 0) * masks[p] # 0

\* lines 162-192: the evaluation proper, on token lists
Evaluate(w, c, g) ==
    LET masks    == Masks(c, g)
        seq      == Sequences(c, g)
        labels   == Labels(seq)
        logits   == Logits(w, Inputs(seq))
        expanded == ExpandedLogProbs(logits, labels)
        traj     == TrajLogProbs(expanded, masks)
    IN  [ll     |-> traj,
         greedy |-> GreedyDecoding(logits, labels, masks),
         entry  |-> CacheEntry(traj, expanded, logits)]

\* Evaluate on every request the bounds allow, computed once
EvaluateAll ==
    Tabulate([w \in Seeds |-> Tabulate([c \in CtxTokens |->
        Tabulate([g \in GenTokens |-> Evaluate(w, c, g)])])])

\* lines 155-192 as a function of the cache and one request: the outcome and
\* the cache afterwards.  ctx is a Python value: len(ctx) at line 162 raises
\* TypeError unless it is a list.
Unbatched(w, cache, cs, ctx, gen) ==
    IF CacheHit(cache, cs, gen)
    THEN [status |-> "ok", hit |-> TRUE,
          ll     |-> cache[cs][gen[1]],
          greedy |-> Argmax(cache[cs]) = gen[1],
          cache  |-> cache]
    ELSE IF ctx.t # "list"
    THEN [status |-> "TypeError", hit |-> FALSE, ll |-> 0, greedy |-> FALSE,
          cache  |-> cache]
    ELSE LET e == EvaluateAll[w][ctx.l][gen]
         IN  [status |-> "ok", hit |-> FALSE, ll |-> e.ll, greedy |-> e.greedy,
              cache  |-> IF Len(gen) = 1
                         THEN [s \in DOMAIN cache \cup {cs} |->
                                  IF s = cs THEN e.entry ELSE cache[s]]
                         ELSE cache]

\* ---------------------------------------------- what a request asks for
\* The log-likelihood of continuation g after context c: each continuation
\* token scored after everything before it.
DirectLL(w, c, g) ==
    SumSeq([j \in 1 .. Len(g) |-> LogProb(w, c \o Prefix(g, j - 1), g[j])])

\* Whether greedy decoding after c would produce g
DirectGreedy(w, c, g) ==
    \A j \in 1 .. Len(g) :
        g[j] = Argmax([v \in Vocab |-> LogProb(w, c \o Prefix(g, j - 1), v)])

WantAll ==
    Tabulate([w \in Seeds |-> Tabulate([c \in CtxTokens |->
        Tabulate([g \in GenTokens |->
            [ll |-> DirectLL(w, c, g), greedy |-> DirectGreedy(w, c, g)]])])])

\* The vector an evaluation of context c stores at line 184
FreshEntry(w, c) == EvaluateAll[w][c][<<EOS>>].entry

\* ------------------------------------------------------------ actions
\* One call of _loglikelihood_tokens_unbatched([((cs, _), c, g)]).  `call`
\* keeps, beside the request's shape, what the request asks for (want) and
\* what lines 162-192 give with the memoization left out (plain).
LoglikelihoodTokensUnbatched(cs, c, g) ==
    \E r \in {Unbatched(weights, ll_cache, cs, PyList(c), g)},
       e \in {EvaluateAll[weights][c][g]} :
        /\ ll_cache' = r.cache
        /\ call' = [op    |-> "unbatched", cs |-> cs,
                    lenC  |-> Len(c), lenG |-> Len(g),
                    want  |-> WantAll[weights][c][g],
                    plain |-> [ll |-> e.ll, greedy |-> e.greedy],
                    stale |-> r.hit /\ ll_cache[cs] # FreshEntry(weights, c)]
        /\ ret' = [status |-> r.status, hit |-> r.hit, ll |-> r.ll,
                   greedy |-> r.greedy]
        /\ UNCHANGED <<weights, eot_ids, tok_of, kv_cache, genvars>>

\* lines 208-211: _loglikelihood_tokens, one unbatched call per request in
\* order; an exception ends the loop
RECURSIVE LoglikelihoodTokens(_, _, _)
LoglikelihoodTokens(w, cache, reqs) ==
    IF reqs = <<>> THEN [status |-> "ok", results |-> <<>>, cache |-> cache]
    ELSE LET q == Head(reqs)
             r == Unbatched(w, cache, q.cs, q.ctx, q.gen)
         IN  IF r.status # "ok"
             THEN [status |-> r.status, results |-> <<>>, cache |-> r.cache]
             ELSE LET rest == LoglikelihoodTokens(w, r.cache, Tail(reqs))
                  IN  [status  |-> rest.status,
                       results |-> IF rest.status = "ok"
                                   THEN <<[ll |-> r.ll, greedy |-> r.greedy]>>
                                        \o rest.results
                                   ELSE <<>>,
                       cache   |-> rest.cache]

\* lines 217-226: the requests loglikelihood_rolling builds from the
\* tokenized texts: the context string is bos_token, the context "tokens"
\* the bare int bos_token_id, the continuation the text followed by EOS
RollingRequests(texts) ==
    [k \in 1 .. Len(texts) |->
        [cs |-> BosString, ctx |-> PyInt(BOS), gen |-> texts[k] \o <<eot_token_id>>]]

\* line 227: (self._loglikelihood_tokens(new_requests)[0],)
RollingReturn(out) ==
    IF out.status # "ok" THEN [status |-> out.status, value |-> <<>>]
    ELSE IF out.results = <<>> THEN [status |-> "IndexError", value |-> <<>>]
    ELSE [status |-> "ok",
          value  |-> <<[t |-> "tuple", ll |-> out.results[1].ll,
                        greedy |-> out.results[1].greedy]>>]

\* One call of loglikelihood_rolling; texts are the requests' tokenized texts
LoglikelihoodRolling(texts) ==
    \E out \in {LoglikelihoodTokens(weights, ll_cache, RollingRequests(texts))} :
        /\ ll_cache' = out.cache
        /\ call' = [op   |-> "rolling", n |-> Len(texts),
                    want |-> [k \in 1 .. Len(texts) |->
                        [t |-> "float",
                         x |-> WantAll[weights][<<BOS>>][texts[k] \o <<EOS>>].ll]]]
        /\ ret' = RollingReturn(out)
        /\ UNCHANGED <<weights, eot_ids, tok_of, kv_cache, genvars>>


\* The texts a rolling request can carry: ordinary tokens only
\* (add_special_tokens=False), short enough that text + EOS is a continuation
Texts == SeqsUpTo(Vocab \ SpecialTokens, 0, MaxGen - 1)

\* ---------------------------------------------------------- __init__
\* lines 30 and 102: empty ll_cache, fresh kv_cache; no call yet
InitCommon ==
    /\ ll_cache = <<>>
    /\ kv_cache = <<>>
    /\ call = NoCall
    /\ ret = NoRet
    /\ pc = "idle"
    /\ idx = 1
    /\ new_tokens = <<>>
    /\ loop_i = Unbound
    /\ responses = <<>>
    /\ decoded = <<>>
    /\ done = NoDone
    /\ fwd = NoFwd

\* --------------------------------------------- log-likelihood, any caller
InitLL ==
    /\ InitCommon
    /\ weights \in Seeds
    /\ eot_ids = <<EOS>>
    /\ tok_of = [s \in CtxStrings |-> <<BOS>>]

NextLL ==
    \/ \E cs \in CtxStrings, c \in CtxTokens, g \in GenTokens :
          LoglikelihoodTokensUnbatched(cs, c, g)
    \/ \E texts \in SeqsUpTo(Texts, 0, MaxReqs) : LoglikelihoodRolling(texts)

SpecLL == InitLL /\ [][NextLL]_vars

\* ------------------- log-likelihood, context tokens = tok_encode(context)
InitTok ==
    /\ InitCommon
    /\ weights \in Seeds
    /\ eot_ids = <<EOS>>
    /\ tok_of \in [CtxStrings -> CtxTokens]

NextTok ==
    \E cs \in CtxStrings, g \in GenTokens :
        LoglikelihoodTokensUnbatched(cs, tok_of[cs], g)

SpecTok == InitTok /\ [][NextTok]_vars

\* ================================================= generate_until, generate
\* ------------------------------------------------------------- text
\* Text is a sequence of characters.  Token 0 and 1 are special; the others
\* decode to one character each.
Chars == <<"a", " ", "b">>
TokChar(t) == Chars[((t - 2) % 3) + 1]

\* self.tokenizer.decode(tokens, skip_special_tokens=True)
RECURSIVE Decode(_)
Decode(toks) ==
    IF toks = <<>> THEN <<>>
    ELSE IF Head(toks) \in SpecialTokens THEN Decode(Tail(toks))
    ELSE <<TokChar(Head(toks))>> \o Decode(Tail(toks))

\* str.strip()
RECURSIVE LStrip(_)
LStrip(s) == IF s # <<>> /\ Head(s) = " " THEN LStrip(Tail(s)) ELSE s
RECURSIVE RStrip(_)
RStrip(s) ==
    IF s # <<>> /\ s[Len(s)] = " " THEN RStrip(Prefix(s, Len(s) - 1)) ELSE s
Strip(s) == RStrip(LStrip(s))

\* the positions at which sep occurs in s
Occurrences(s, sep) ==
    {p \in 1 .. (Len(s) - Len(sep) + 1) : SubSeq(s, p, p + Len(sep) - 1) = sep}

\* s.split(sep)[0] for a non-empty string sep: s up to the first sep
SplitFirst(s, sep) ==
    IF Occurrences(s, sep) = {} THEN s
    ELSE Prefix(s, (CHOOSE p \in Occurrences(s, sep) :
                        \A q \in Occurrences(s, sep) : p <= q) - 1)

\* lines 271-273: the loop runs over stop_seqs, the list of every request of
\* the call.  len() of an int raises TypeError, and so does str.split given
\* a list.
RECURSIVE ApplyStopSeqs(_, _)
ApplyStopSeqs(response, stops) ==
    IF stops = <<>> THEN [status |-> "ok", text |-> response]
    ELSE LET e == Head(stops)
         IN  IF e.t = "int" THEN [status |-> "TypeError", text |-> response]
             ELSE IF e.t = "list"
             THEN IF Len(e.l) > 0
                  THEN [status |-> "TypeError", text |-> response]
                  ELSE ApplyStopSeqs(response, Tail(stops))
             ELSE IF Len(e.s) > 0
                  THEN ApplyStopSeqs(SplitFirst(response, e.s), Tail(stops))
                  ELSE ApplyStopSeqs(response, Tail(stops))

\* lines 254 and 262: new_tokens[-len(self.eot_ids):] == self.eot_ids
EndsInEot(toks, eot) == LastK(toks, Len(eot)) = eot

\* line 241: apply_chat_template(conversations, add_generation_prompt=True);
\* a conversation is given by the tokens of its one user message
ApplyChatTemplate(conversations) ==
    [k \in 1 .. Len(conversations) |-> <<BOS>> \o conversations[k]]

\* line 245
KvNotReset(kv) == kv
KvReset(kv) == <<>>

\* lines 250 and 258: self.model(x, kv_cache=kv) appends x's positions
Forward(kv, x) == kv \o x

\* lines 233-236: the lists generate_until hands to generate as max_lengths
\* and as stop_seqs
UntilMaxLengths(requests) ==
    [k \in 1 .. Len(requests) |-> PyList(requests[k].until)]
UntilStopSeqs(requests) ==
    [k \in 1 .. Len(requests) |-> PyInt(requests[k].max_gen_toks)]

\* ------------------------------------------------------------ actions
\* lines 240-243: generate is entered
Enter(via, requests, conversations, max_lengths, stop_seqs) ==
    /\ pc = "idle"
    /\ pc' = "loop"
    /\ call' = [op |-> "generate", via |-> via, requests |-> requests,
                n |-> Len(conversations),
                prompts |-> ApplyChatTemplate(conversations),
                max_lengths |-> max_lengths, stop_seqs |-> stop_seqs]
    /\ ret' = NoRet
    /\ idx' = 1
    /\ new_tokens' = <<>>
    /\ loop_i' = Unbound
    /\ responses' = <<>>
    /\ decoded' = <<>>
    /\ done' = NoDone
    /\ fwd' = NoFwd
    /\ UNCHANGED <<weights, eot_ids, tok_of, ll_cache, kv_cache>>

Generate(conversations, max_lengths, stop_seqs) ==
    Enter("generate", <<>>, conversations, max_lengths, stop_seqs)

\* lines 229-238
GenerateUntil(requests) ==
    Enter("generate_until", requests,
          [k \in 1 .. Len(requests) |-> requests[k].content],
          UntilMaxLengths(requests), UntilStopSeqs(requests))

\* generate leaves by return or by an exception
Leave(status, kind, value) ==
    /\ pc' = "returned"
    /\ ret' = [status |-> status, kind |-> kind, value |-> value]

\* lines 244-257: the next request: reset, the prompt's forward pass, the
\* first token, the early return, range(1, max_length)
RequestBegin ==
    /\ pc = "loop"
    /\ idx <= call.n
    /\ \E tok \in Vocab :
        LET kv == KvReset(kv_cache)
        IN  /\ fwd' = [seen |-> kv, fed |-> <<>>]
            /\ kv_cache' = Forward(kv, call.prompts[idx])
            /\ new_tokens' = <<tok>>
            /\ done' = NoDone
            /\ IF EndsInEot(<<tok>>, eot_ids)
               THEN Leave("ok", "tuple", <<>>)
               ELSE IF call.max_lengths[idx].t # "int"
               THEN Leave("TypeError", "none", <<>>)
               ELSE /\ pc' = IF call.max_lengths[idx].n <= 1 THEN "post" ELSE "decode"
                    /\ ret' = ret
    /\ UNCHANGED <<weights, eot_ids, tok_of, ll_cache, call, idx, loop_i,
                   responses, decoded>>

\* lines 257-263: one iteration of the loop; i is the number of tokens
\* sampled before it
DecodeStep ==
    /\ pc = "decode"
    /\ \E tok \in Vocab :
        LET i == Len(new_tokens)
        IN  /\ loop_i' = [bound |-> TRUE, v |-> i]
            /\ fwd' = [seen |-> kv_cache,
                       fed  |-> call.prompts[idx] \o Prefix(new_tokens, i - 1)]
            /\ kv_cache' = Forward(kv_cache, <<new_tokens[i]>>)
            /\ new_tokens' = Append(new_tokens, tok)
            /\ pc' = IF \/ EndsInEot(Append(new_tokens, tok), eot_ids)
                        \/ i = call.max_lengths[idx].n - 1
                     THEN "post" ELSE "decode"
    /\ UNCHANGED <<weights, eot_ids, tok_of, ll_cache, call, ret, idx,
                   responses, decoded, done>>

\* line 265: i == max_length - 1
CapReached(i, max_length) == i = max_length - 1

\* lines 265-275: the length-cap fallback, decoding, the stop cut
RequestEnd ==
    /\ pc = "post"
    /\ LET max_length == call.max_lengths[idx].n
       IN  IF ~loop_i.bound
           THEN /\ Leave("UnboundLocalError", "none", <<>>)
                /\ done' = [status |-> "UnboundLocalError", k |-> idx,
                            max_length |-> max_length, sampled |-> new_tokens,
                            final |-> new_tokens, warned |-> FALSE]
                /\ UNCHANGED <<idx, new_tokens, responses, decoded>>
           ELSE LET cap   == CapReached(loop_i.v, max_length)
                    final == IF cap THEN new_tokens \o eot_ids ELSE new_tokens
                    text  == Strip(Decode(final))
                    cut   == ApplyStopSeqs(text, call.stop_seqs)
                IN  /\ new_tokens' = final
                    /\ done' = [status |-> cut.status, k |-> idx,
                                max_length |-> max_length, sampled |-> new_tokens,
                                final |-> final, warned |-> cap]
                    /\ IF cut.status # "ok"
                       THEN /\ Leave(cut.status, "none", <<>>)
                            /\ UNCHANGED <<idx, responses, decoded>>
                       ELSE /\ responses' = Append(responses, cut.text)
                            /\ decoded' = Append(decoded, text)
                            /\ idx' = idx + 1
                            /\ pc' = "loop"
                            /\ ret' = ret
    /\ UNCHANGED <<weights, eot_ids, tok_of, ll_cache, kv_cache, call, loop_i, fwd>>

\* line 277
Return ==
    /\ pc = "loop"
    /\ idx > call.n
    /\ Leave("ok", "list", responses)
    /\ UNCHANGED <<weights, eot_ids, tok_of, ll_cache, kv_cache, call, idx,
                   new_tokens, loop_i, responses, decoded, done, fwd>>

\* The caller has the result (or the exception); the frame of the call is
\* gone and the adapter, its kv_cache as the call left it, takes the next call.
Resume ==
    /\ pc = "returned"
    /\ pc' = "idle"
    /\ call' = NoCall
    /\ ret' = NoRet
    /\ idx' = 1
    /\ new_tokens' = <<>>
    /\ loop_i' = Unbound
    /\ responses' = <<>>
    /\ decoded' = <<>>
    /\ done' = NoDone
    /\ fwd' = NoFwd
    /\ UNCHANGED <<weights, eot_ids, tok_of, ll_cache, kv_cache>>

\* ------------------------------------------------- the calls generated
\* a user message: ordinary tokens
Contents == SeqsUpTo(Vocab \ SpecialTokens, 0, 1)
\* a request's stop_seqs entry as generate's signature has it (a list of
\* strings), and as a single string
StopLists == {<<>>, << <<"a">> >>}
StopEntries == {PyList(l) : l \in StopLists} \cup {PyStr(<<"a">>)}
Lengths == 1 .. MaxLength

EotChoices == {<<EOS>>, <<2, EOS>>}

UntilRequests ==
    [content : Contents, until : StopLists, max_gen_toks : Lengths]

InitGen ==
    /\ InitCommon
    /\ weights = 0
    /\ eot_ids \in EotChoices
    /\ tok_of = [s \in CtxStrings |-> <<BOS>>]

\* a call is made only when none is in progress
CallGenerate ==
    /\ pc = "idle"
    /\ \E n \in 0 .. MaxReqs :
         \E conversations \in [1 .. n -> Contents],
            max_lengths \in [1 .. n -> {PyInt(m) : m \in Lengths}],
            stop_seqs \in [1 .. n -> StopEntries] :
              Generate(conversations, max_lengths, stop_seqs)

CallGenerateUntil ==
    /\ pc = "idle"
    /\ \E requests \in SeqsUpTo(UntilRequests, 0, MaxReqs) : GenerateUntil(requests)

Next ==
    \/ CallGenerate
    \/ CallGenerateUntil
    \/ RequestBegin
    \/ DecodeStep
    \/ RequestEnd
    \/ Return
    \/ Resume

Spec == InitGen /\ [][Next]_vars

\* ===================================================== the claims
\* C1 (stated as claimed, for the calls that return; refuted): a call of
\* generate with n conversations returns a list of exactly n responses,
\* whatever the sampler draws.
C1_GenerateReturnsOneResponsePerConversation ==
    (pc = "returned" /\ ret.status = "ok") =>
        /\ ret.kind = "list"
        /\ Len(ret.value) = call.n

\* C2 (stated as claimed; refuted): generate_until hands request k's
\* max_gen_toks to generate as max_lengths[k] and its until list as
\* stop_seqs[k], and no more than max_gen_toks tokens are sampled for it.
C2_GenerateUntilPassesCapAndStops ==
    (call.op = "generate" /\ call.via = "generate_until") =>
        /\ \A k \in 1 .. call.n :
              /\ call.max_lengths[k] = PyInt(call.requests[k].max_gen_toks)
              /\ call.stop_seqs[k] = PyList(call.requests[k].until)
        /\ pc \in {"decode", "post"} =>
              Len(new_tokens) <= call.requests[idx].max_gen_toks

\* the decoded text cut before the first occurrence of each non-empty stop
\* sequence of one request
RECURSIVE CutAtEach(_, _)
CutAtEach(text, stops) ==
    IF stops = <<>> THEN text
    ELSE CutAtEach(IF Head(stops) = <<>> THEN text ELSE SplitFirst(text, Head(stops)),
                   Tail(stops))
CutAtOwnStops(text, e) ==
    IF e.t = "list" THEN CutAtEach(text, e.l)
    ELSE IF e.t = "str" THEN CutAtEach(text, <<e.s>>)
    ELSE text

\* C3 (stated as claimed; refuted): response k of a returned list is the
\* decoded text of request k cut at request k's own stop sequences; the
\* other requests' stop sequences do not change it.
C3_ResponseCutAtOwnStopsOnly ==
    (pc = "returned" /\ ret.status = "ok" /\ ret.kind = "list") =>
        \A k \in 1 .. Len(ret.value) :
            ret.value[k] = CutAtOwnStops(decoded[k], call.stop_seqs[k])

\* C4 (stated as claimed; refuted under SpecTok, where every context string
\* has one token list): every _loglikelihood_tokens_unbatched call returns the
\* (log-likelihood, is_greedy) pair that lines 162-192 give without ll_cache.
C4_CacheIsTransparent ==
    call.op = "unbatched" =>
        /\ ret.status = "ok"
        /\ ret.ll = call.plain.ll
        /\ ret.greedy = call.plain.greedy

\* C5: a request with non-empty context c and continuation g evaluated
\* without a cache hit returns the sum over the positions j of g of the
\* log-probability of g[j] after c followed by g[1..j-1].
C5_LogLikelihoodIsContinuationSum ==
    (call.op = "unbatched" /\ ~ret.hit) =>
        /\ ret.status = "ok"
        /\ ret.ll = call.want.ll

C5_Witness ==
    /\ call.op = "unbatched" /\ ~ret.hit
    /\ call.lenC >= 2 /\ call.lenG >= 2
    /\ ret.ll < 0

\* C6: every forward pass of generate runs on a cache that holds exactly what
\* the request being served has fed the model before it: nothing written
\* for an earlier request or an earlier call.
C6_ForwardRunsOnOwnCache == fwd.seen = fwd.fed

\* a later request of a call, past its first decode step, the cache non-empty
C6_Witness ==
    /\ pc = "post" /\ idx = 2
    /\ Len(new_tokens) >= 2
    /\ fwd.seen # <<>>

\* C7 (stated as claimed; refuted): for a request with max_length >= 1 that
\* reaches line 265, the warning is printed and eot_ids appended once if
\* max_length tokens were sampled and they do not end in eot_ids, and nothing
\* is appended if they end in eot_ids.
C7_EotAppendedExactlyAtTheCap ==
    done.status # "none" =>
        /\ done.status # "UnboundLocalError"
        /\ (Len(done.sampled) = done.max_length /\ ~EndsInEot(done.sampled, eot_ids))
              => (done.warned /\ done.final = done.sampled \o eot_ids)
        /\ EndsInEot(done.sampled, eot_ids)
              => (~done.warned /\ done.final = done.sampled)

\* C8 (stated as claimed; refuted): loglikelihood_rolling on n requests
\* returns n results, the k-th the log-likelihood of the k-th text followed
\* by EOS after the context <<BOS>>.
C8_RollingReturnsEveryLogLikelihood ==
    call.op = "rolling" =>
        /\ ret.status = "ok"
        /\ Len(ret.value) = call.n
        /\ \A k \in 1 .. call.n : ret.value[k] = call.want[k]

\* C9: ll_cache only grows: no step removes a stored context string or
\* changes the vector stored under it.
C9_CacheOnlyGrows ==
    [][\A s \in DOMAIN ll_cache :
          s \in DOMAIN ll_cache' /\ ll_cache'[s] = ll_cache[s]]_vars

\* a cache hit on a context string whose entry differs from the vector this
\* call's context tokens would store, with the other string stored as well
C9_Witness ==
    /\ call.op = "unbatched" /\ ret.hit /\ call.stale
    /\ DOMAIN ll_cache = CtxStrings

\* C10 (stated as claimed; refuted): without a cache hit, is_greedy is true
\* exactly when every continuation token is the argmax token at its
\* position, whatever the context.
C10_GreedyIffContinuationIsArgmax ==
    (call.op = "unbatched" /\ ~ret.hit) => ret.greedy = call.want.greedy

====
